---- MODULE Spec2Model ----
(***************************************************************************)
(* WHIP muxer / WHEP demuxer of libavformat (whip.c, webrtc_mux.c,         *)
(* webrtc_demux.c, webrtc.h) as a state machine.                           *)
(*                                                                         *)
(* One caller thread drives init, write_header, write_packet,              *)
(* write_trailer and deinit; the transport engine's thread delivers        *)
(* whip_on_state_change at any time once negotiation has started.  The     *)
(* engine (libdatachannel), the HTTP client and the RTP sub-pipelines are   *)
(* the environment: their results are drawn nondeterministically and the   *)
(* calls made on them are recorded in the ghost variables env and trace.   *)
(***************************************************************************)
EXTENDS Integers, Sequences, FiniteSets, TLC

(* ------------------------------ bounds -------------------------------- *)
\* most streams the surrounding pipeline declares
MaxStreams == 2
\* most packets routed in one session
MaxPackets == 2
\* largest configured connection_timeout, in poll intervals
MaxTimeout == 2
\* how far the clock runs past the deadline
MaxOvershoot == 2
\* most write_trailer calls the caller makes
MaxTrailers == 2
\* most options the caller sets before init
MaxOptionSets == 2

(* --------------------------- program constants ------------------------- *)
AVERROR_EXTERNAL == -542398533
AVERROR_EOF == -541478725
AVERROR_EINVAL == -22
AVERROR_ENOMEM == -12
AVERROR_EIO == -5
\* the error code of the engine that rtcGetTrackDescription returns for a
\* track it does not hold; whep_read_header returns it as it is
RTC_ERR_INVALID == -1
\* connection_timeout's minimum (100000 us) in units of whip.c's poll
\* interval, av_usleep(100000)
MinTimeout == 1
\* av_usleep(100000) of the wait loop, in the same unit
PollInterval == 1
\* connection_timeout's default (10000000 us), in the same unit
DefaultTimeout == 100
\* rw_timeout's default (1000000 us), in the same unit
DefaultRwTimeout == 10
\* the options' maximum, INT_MAX us, in the same unit (rounded down)
MaxDuration == 21474

RtcStates ==
    {"RTC_NEW", "RTC_CONNECTING", "RTC_CONNECTED",
     "RTC_DISCONNECTED", "RTC_FAILED", "RTC_CLOSED"}

Variants == {"whip", "mux", "whep"}

(* ------------------------------ streams ------------------------------- *)
\* the AVCodecParameters fields whip_init reads
Stream(type, codec, rate, stereo) ==
    [codec_type |-> type, codec_id |-> codec, sample_rate |-> rate, stereo |-> stereo]

StreamKinds ==
    { Stream("video", "H264", 0, FALSE),
      Stream("video", "VP8", 0, FALSE),
      Stream("audio", "OPUS", 48000, TRUE),
      Stream("audio", "OPUS", 44100, TRUE),
      Stream("audio", "AAC", 48000, FALSE),
      Stream("audio", "MP3", 48000, TRUE),
      Stream("data", "NONE", 0, FALSE) }

RECURSIVE SeqsUpTo(_, _)
SeqsUpTo(S, n) ==
    IF n = 0 THEN {<<>>}
    ELSE LET shorter == SeqsUpTo(S, n - 1)
         IN  shorter \cup {Append(q, x) : q \in {r \in shorter : Len(r) = n - 1}, x \in S}

(* --------------------------- state ------------------------------------ *)
VARIABLES
    variant,        \* which format is built: whip.c, webrtc_mux.c or webrtc_demux.c
    streams,        \* avctx->streams
    ctx,            \* WHIPContext / DataChannelContext
    pc,             \* where the caller thread is
    ret,            \* what the last call returned
    now,            \* av_gettime_relative(), in poll intervals
    wait,           \* locals of the wait loop of whip_write_header
    env,            \* ghost: what the engine and the bridges hold
    trace,          \* ghost: the calls made on the engine and the HTTP client
    hist            \* ghost: facts about the run the claims speak of

vars == <<variant, streams, ctx, pc, ret, now, wait, env, trace, hist>>

nb_streams == Len(streams)

Ev(op, arg) == [op |-> op, arg |-> arg]

\* one element of s->tracks: whip.c keeps an int, webrtc.h a DataChannelTrack
Slot(id, rtp, url) == [track_id |-> id, rtp_ctx |-> rtp, rtp_url_context |-> url]

\* values an element of the av_malloc'ed (not zeroed) array of whip.c can hold
\* before it is assigned
GarbageVals == {0, 2, 9}

World == [ctx |-> ctx, env |-> env, trace |-> trace]

Log(w, op, arg) == [w EXCEPT !.trace = Append(@, Ev(op, arg))]

Count(op) == Cardinality({i \in 1..Len(trace) : trace[i].op = op})
CountArg(op, arg) ==
    Cardinality({i \in 1..Len(trace) : trace[i].op = op /\ trace[i].arg = arg})
Happened(op) == \E i \in 1..Len(trace) : trace[i].op = op
\* position of the first call of op in the trace, 0 when there is none
First(op) ==
    IF Happened(op)
    THEN CHOOSE i \in 1..Len(trace) :
            trace[i].op = op /\ \A j \in 1..(i - 1) : trace[j].op # op
    ELSE 0

(* ------------------------- engine calls ------------------------------- *)
\* rtcDeleteTrack(id)
rtcDeleteTrack(w, id) ==
    Log([w EXCEPT !.env.tracks = @ \ {id}], "rtcDeleteTrack", id)

\* rtcDeletePeerConnection(pc)
rtcDeletePeerConnection(w, p) ==
    Log([w EXCEPT !.env.pcs = @ \ {p}], "rtcDeletePeerConnection", p)

\* rtcAddTrackEx(pc, &init) returning res: a fresh identifier (> 0) on
\* success, 0 or a negative error code otherwise
rtcAddTrackEx(w, res) ==
    Log(IF res > 0
        THEN [w EXCEPT !.env.tracks = @ \cup {res}, !.env.nextId = res + 1]
        ELSE w,
        "rtcAddTrackEx", res)

(* ----------------------------- whip.c --------------------------------- *)
\* the loop of whip_deinit over s->tracks, from element i on
RECURSIVE whip_deinit_tracks(_, _)
whip_deinit_tracks(w, i) ==
    IF i > Len(w.ctx.tracks.slots) THEN w
    ELSE whip_deinit_tracks(
            IF w.ctx.tracks.slots[i].track_id # 0
            THEN rtcDeleteTrack(w, w.ctx.tracks.slots[i].track_id)
            ELSE w,
            i + 1)

NullTracks == [null |-> TRUE, slots |-> <<>>]

\* a whip_deinit that keeps the handle of the peer connection it deleted
whip_deinit_KeepsHandle(w) ==
    LET w1 == IF ~w.ctx.tracks.null
              THEN [whip_deinit_tracks(w, 1) EXCEPT !.ctx.tracks = NullTracks]
              ELSE w
    IN  IF w1.ctx.peer_connection # 0
        THEN rtcDeletePeerConnection(w1, w1.ctx.peer_connection)
        ELSE w1

\* whip_deinit (whip.c:477-492)
whip_deinit(w) ==
    LET w1 == IF ~w.ctx.tracks.null
              THEN [whip_deinit_tracks(w, 1) EXCEPT !.ctx.tracks = NullTracks]
              ELSE w
    IN  IF w1.ctx.peer_connection # 0
        THEN [rtcDeletePeerConnection(w1, w1.ctx.peer_connection)
                EXCEPT !.ctx.peer_connection = 0]
        ELSE w1

TrackOutcomes == {"ok", "add_zero", "add_neg", "packetizer", "sr", "nack"}

\* what rtcAddTrackEx returns under a drawn outcome
AddTrackResult(w, out) ==
    CASE out = "add_zero" -> 0
      [] out = "add_neg" -> -1
      [] OTHER -> w.env.nextId

SetSlot(w, i, id) == [w EXCEPT !.ctx.tracks.slots[i].track_id = id]

\* rtcSet*PacketizationHandler, rtcChainRtcpSrReporter and
\* rtcChainRtcpNackResponder on s->tracks[i]: the first of them that fails,
\* "ok" when none does (the engine refuses an identifier it did not issue)
ChainFails(w, i, out) ==
    IF w.ctx.tracks.slots[i].track_id \notin w.env.tracks THEN "packetizer"
    ELSE IF out \in {"packetizer", "sr", "nack"} THEN out
    ELSE "ok"

\* a setup that accepts every sample rate
BadRate_Unchecked(par) == FALSE

\* codecpar->sample_rate != 48000 (whip.c:163, webrtc_mux.c:82)
BadRate(par) == par.sample_rate # 48000

\* av_channel_layout_compare(&codecpar->ch_layout, &supported_layout)
\* (whip.c:169, webrtc_mux.c:87)
BadLayout(par) == ~par.stereo

\* a setup that takes every audio codec for a mapped one
UnmappedAudio_Unchecked(par) == FALSE

\* the default label of switch (codecpar->codec_id) of the audio branch
\* (whip.c:178-189): the codec is neither OPUS nor AAC
UnmappedAudio(par) == par.codec_id \notin {"OPUS", "AAC"}

\* a setup that takes every video codec for a mapped one
UnmappedVideo_Unchecked(par) == FALSE

\* the default label of switch (codecpar->codec_id) of the video branch
\* (whip.c:243-255): the codec is neither H264 nor HEVC
UnmappedVideo(par) == par.codec_id \notin {"H264", "HEVC"}

\* the audio branch of the loop of whip_init (whip.c:162-237) for stream i
whip_init_audio(w, i, out) ==
    LET par == streams[i] IN
    IF BadRate(par) THEN [w |-> w, ret |-> AVERROR_EINVAL]
    ELSE IF BadLayout(par) THEN [w |-> w, ret |-> AVERROR_EINVAL]
    ELSE IF UnmappedAudio(par) THEN [w |-> w, ret |-> AVERROR_EINVAL]
    ELSE LET id == AddTrackResult(w, out)
             w1 == SetSlot(rtcAddTrackEx(w, id), i, id)
         IN  IF id = 0 THEN [w |-> w1, ret |-> AVERROR_EINVAL]
             ELSE IF ChainFails(w1, i, out) # "ok" THEN [w |-> w1, ret |-> AVERROR_EXTERNAL]
             ELSE [w |-> w1, ret |-> 0]

\* the video branch of the loop of whip_init (whip.c:238-303) for stream i
whip_init_video(w, i, out) ==
    LET par == streams[i] IN
    IF UnmappedVideo(par) THEN [w |-> w, ret |-> AVERROR_EINVAL]
    ELSE LET id == AddTrackResult(w, out)
             w1 == SetSlot(rtcAddTrackEx(w, id), i, id)
         IN  IF id = 0 THEN [w |-> w1, ret |-> AVERROR_EXTERNAL]
             ELSE IF ChainFails(w1, i, out) # "ok" THEN [w |-> w1, ret |-> AVERROR_EXTERNAL]
             ELSE [w |-> w1, ret |-> 0]

\* the loop of whip_init over the streams, from stream i on; ret is 0 when
\* the loop ran to its end and the error of the `goto fail` otherwise
RECURSIVE whip_init_loop(_, _, _)
whip_init_loop(w, i, outs) ==
    IF i > nb_streams THEN [w |-> w, ret |-> 0, at |-> i]
    ELSE LET r == CASE streams[i].codec_type = "audio" -> whip_init_audio(w, i, outs[i])
                    [] streams[i].codec_type = "video" -> whip_init_video(w, i, outs[i])
                    [] OTHER -> [w |-> w, ret |-> 0]
         IN  IF r.ret # 0 THEN [w |-> r.w, ret |-> r.ret, at |-> i]
             ELSE whip_init_loop(r.w, i + 1, outs)

\* the label fail of whip_init; at is the stream the loop stopped at (0
\* before the loop)
whip_init_fail(w, r, at) == [w |-> whip_deinit(w), ret |-> r, at |-> at]

\* whip_init (whip.c:115-317).  in.pcRes is what rtcCreatePeerConnection
\* returns, in.fail the engine or allocator call that fails outside the loop,
\* in.garbage the content of the freshly allocated array, in.outs the
\* outcome of the engine calls made for each stream.
whip_init_op(w, in) ==
    IF in.pcRes = 0
    THEN [w |-> Log(w, "rtcCreatePeerConnection", 0), ret |-> AVERROR_EXTERNAL, at |-> 0]
    ELSE
    LET w1 == Log([w EXCEPT !.ctx.peer_connection = in.pcRes,
                            !.env.pcs = IF in.pcRes > 0 THEN @ \cup {in.pcRes} ELSE @],
                  "rtcCreatePeerConnection", in.pcRes)
    IN  IF in.pcRes \notin w1.env.pcs \/ in.fail = "callback"
        THEN whip_init_fail(w1, AVERROR_EXTERNAL, 0)
        ELSE IF in.fail = "malloc" THEN whip_init_fail(w1, AVERROR_ENOMEM, 0)
        ELSE
        LET w2 == [w1 EXCEPT !.ctx.tracks =
                       [null |-> FALSE,
                        slots |-> [i \in 1..nb_streams |-> Slot(in.garbage[i], FALSE, FALSE)]]]
            r == whip_init_loop(w2, 1, in.outs)
        IN  IF r.ret # 0 THEN whip_init_fail(r.w, r.ret, r.at)
            ELSE IF in.fail = "local_description"
            THEN whip_init_fail(Log(r.w, "rtcSetLocalDescription", -1), AVERROR_EXTERNAL, r.at)
            ELSE [w |-> Log([r.w EXCEPT !.env.localDesc = TRUE], "rtcSetLocalDescription", 0),
                  ret |-> 0, at |-> r.at]

\* the outcomes drawn for the per-stream engine calls: at most one stream's
\* calls fail, since the first failure ends the loop
OutcomeSeqs(n) ==
    {[i \in 1..n |-> "ok"]} \cup
    {[i \in 1..n |-> IF i = k THEN o ELSE "ok"] : k \in 1..n, o \in TrackOutcomes \ {"ok"}}

GarbageSeqs(n) == [1..n -> GarbageVals]

InitInputs ==
    [pcRes : {1, 0, -1}, fail : {"none", "callback", "malloc", "local_description"},
     garbage : GarbageSeqs(nb_streams), outs : OutcomeSeqs(nb_streams)]

Commit(r, nextpc) ==
    /\ ctx' = r.w.ctx
    /\ env' = r.w.env
    /\ trace' = r.w.trace
    /\ ret' = r.ret
    /\ pc' = nextpc

\* the caller invokes init (avformat_init_output)
whip_init ==
    /\ variant = "whip"
    /\ pc = "start"
    /\ \E in \in InitInputs :
          LET r == whip_init_op(World, in)
          IN  /\ Commit(r, IF r.ret = 0 THEN "inited" ELSE "init_failed")
              /\ hist' = [hist EXCEPT !.initAt = r.at]
    /\ UNCHANGED <<variant, streams, now, wait>>

NULL == "NULL"

(* ------------------- webrtc.h: the shared helpers --------------------- *)
\* webrtc_init_connection: creates the peer connection and registers the
\* state-change callback; out is the step that fails
webrtc_init_connection(w, out) ==
    IF out = "create" THEN [w |-> Log(w, "rtcCreatePeerConnection", 0), ret |-> AVERROR_EXTERNAL]
    ELSE LET w1 == Log([w EXCEPT !.ctx.peer_connection = 1, !.env.pcs = @ \cup {1}],
                       "rtcCreatePeerConnection", 1)
         IN  [w |-> w1, ret |-> IF out = "callback" THEN AVERROR_EXTERNAL ELSE 0]

\* webrtc_init_urlcontext: opens the bridge endpoint of track i
webrtc_init_urlcontext(w, i, ok) ==
    IF ok
    THEN [w |-> [w EXCEPT !.ctx.tracks.slots[i].rtp_url_context = TRUE,
                          !.env.bridges = @ \cup {i}],
          ret |-> 0]
    ELSE [w |-> w, ret |-> AVERROR_ENOMEM]

\* the codecs webrtc_convert_codec maps (those whip_query_codec of
\* webrtc_mux.c accepts)
MuxCodecs == {"OPUS", "AAC", "PCM_MULAW", "PCM_ALAW", "H264", "HEVC", "AV1", "VP9"}

\* webrtc_convert_codec
webrtc_convert_codec(codec_id) == IF codec_id \in MuxCodecs THEN 0 ELSE AVERROR_EINVAL

\* webrtc_deinit, from track i on: every track, its sub-pipeline and its
\* bridge endpoint are released
RECURSIVE webrtc_deinit_tracks(_, _)
webrtc_deinit_tracks(w, i) ==
    IF i > Len(w.ctx.tracks.slots) THEN w
    ELSE LET s == w.ctx.tracks.slots[i]
             w1 == IF s.track_id > 0 THEN rtcDeleteTrack(w, s.track_id) ELSE w
         IN  webrtc_deinit_tracks(
                [w1 EXCEPT !.env.subs = IF s.rtp_ctx THEN @ \ {i} ELSE @,
                           !.env.bridges = IF s.rtp_url_context THEN @ \ {i} ELSE @],
                i + 1)

\* webrtc_deinit
webrtc_deinit(w) ==
    LET w1 == IF ~w.ctx.tracks.null
              THEN [webrtc_deinit_tracks(w, 1) EXCEPT !.ctx.tracks = NullTracks]
              ELSE w
    IN  IF w1.ctx.peer_connection # 0
        THEN [rtcDeletePeerConnection(w1, w1.ctx.peer_connection)
                EXCEPT !.ctx.peer_connection = 0]
        ELSE w1

\* webrtc_create_resource: the offer, the POST exchange, the answer, the
\* resource location; out is the first step that fails
webrtc_create_resource(w, out, loc) ==
    IF out = "local_description"
    THEN [w |-> Log(w, "rtcSetLocalDescription", -1), ret |-> AVERROR_EXTERNAL]
    ELSE
    LET w1 == Log([w EXCEPT !.env.localDesc = TRUE], "rtcSetLocalDescription", 0) IN
    IF out = "alloc" THEN [w |-> Log(w1, "ffurl_alloc", -1), ret |-> AVERROR_ENOMEM]
    ELSE
    LET w2 == Log(w1, "ffurl_alloc", 0) IN
    IF out = "connect"
    THEN [w |-> Log(Log(w2, "ffurl_connect_POST", -1), "ffurl_closep", 0), ret |-> AVERROR_EIO]
    ELSE
    LET w3 == Log(w2, "ffurl_connect_POST", 0) IN
    IF out = "read"
    THEN [w |-> Log(Log(w3, "ffurl_read_complete", -1), "ffurl_closep", 0), ret |-> AVERROR_EIO]
    ELSE
    LET w4 == Log(w3, "ffurl_read_complete", 0) IN
    IF out = "remote_description"
    THEN [w |-> Log(Log(w4, "rtcSetRemoteDescription", -1), "ffurl_closep", 0),
          ret |-> AVERROR_EXTERNAL]
    ELSE
    LET w5 == Log(w4, "rtcSetRemoteDescription", 0) IN
    IF out = "close" THEN [w |-> Log(w5, "ffurl_closep", -1), ret |-> AVERROR_EIO]
    ELSE [w |-> [Log(w5, "ffurl_closep", 0) EXCEPT !.ctx.resource_location = loc], ret |-> 0]

\* webrtc_close_resource: the DELETE to the resource location, which is
\* cleared once the deletion was attempted; ok is whether the request goes
\* through
webrtc_close_resource(w, ok) ==
    IF w.ctx.resource_location = NULL THEN [w |-> w, ret |-> 0]
    ELSE [w |-> [Log(w, "ffurl_connect_DELETE", IF ok THEN 0 ELSE -1)
                    EXCEPT !.ctx.resource_location = NULL],
          ret |-> IF ok THEN 0 ELSE AVERROR_EIO]

\* the deinit of the format that is built
Deinit(w) == IF variant = "whip" THEN whip_deinit(w) ELSE webrtc_deinit(w)

(* ------------------------ whip_write_header --------------------------- *)
\* what av_opt_get(h, "new_location") stores: the Location of the response,
\* or an empty string when the response carried none
Locations == {"", "/resource/1"}

\* the values of the option bearer_token: unset, or a token
Tokens == {NULL, "token"}

\* the description rtcGetLocalDescription copies into offer_sdp: the offer
\* the engine holds for the tracks added so far
LocalDescription(w) == [type |-> "offer", tracks |-> w.env.tracks]

Header(name, value) == [name |-> name, value |-> value]

\* the header Authorization of the request is never set
PostHeaders_NoBearer(tok) == {Header("Content-type", "application/sdp")}

\* the option "headers" whip_write_header sets on the HTTP context
\* (whip.c:342-347): Content-type, then Authorization when s->bearer_token
\* is set (av_asprintf taken to succeed)
PostHeaders(tok) ==
    {Header("Content-type", "application/sdp")} \cup
    (IF tok # NULL THEN {Header("Authorization", <<"Bearer", tok>>)} ELSE {})

\* the option "headers" of the DELETE of whip_write_trailer: the string is
\* built when s->bearer_token is set (whip.c:451-454) but no av_opt_set
\* hands it to the HTTP context, which only gets "method" (whip.c:455)
DeleteHeaders(tok) == {}

\* the request the HTTP context holds when ffurl_connect is called
Request(method, url, headers, body) ==
    [method |-> method, url |-> url, headers |-> headers, body |-> body]

HeaderOutcomes ==
    {"local_description", "alloc", "connect", "read", "remote_description", "close", "ok"}

\* a failure path that also marks the connection closed
whip_write_header_fail_WritesState(w, hOpen, r) ==
    [w |-> [whip_deinit(IF hOpen THEN Log(w, "ffurl_closep", 0) ELSE w)
                EXCEPT !.ctx.state = "RTC_CLOSED"],
     ret |-> r]

\* the label fail of whip_write_header: the HTTP context is closed when it
\* is still open, then whip_deinit runs
whip_write_header_fail(w, hOpen, r) ==
    [w |-> whip_deinit(IF hOpen THEN Log(w, "ffurl_closep", 0) ELSE w), ret |-> r]

\* what the call `step` returns when `out` is the call that fails
Res(out, step, err) == IF out = step THEN err ELSE 0

\* an exchange that goes on after a failed HTTP call
HttpFailed_Ignored(r) == FALSE

\* (ret = ffurl_...(...)) < 0 (whip.c:337, 352, 359, 376)
HttpFailed(r) == r < 0

\* if (rtcSetRemoteDescription(...)) (whip.c:365)
EngineFailed(r) == r # 0

\* whip_write_header up to the start of the wait (whip.c:329-382); out is
\* the first call that fails, loc the location the response carries.  ret is
\* 0 when the wait is to begin.
whip_write_header_exchange(w, out, loc) ==
    LET r1 == Res(out, "local_description", -1)
        w1 == Log(w, "rtcGetLocalDescription", r1)
    IN
    IF r1 < 0 THEN whip_write_header_fail(w1, FALSE, AVERROR_EXTERNAL)
    ELSE
    LET r2 == Res(out, "alloc", AVERROR_ENOMEM)
        w2 == Log(w1, "ffurl_alloc", r2)
    IN
    IF HttpFailed(r2) THEN whip_write_header_fail(w2, FALSE, r2)
    ELSE
    LET r3 == Res(out, "connect", AVERROR_EIO)
        w3 == Log(Log(w2, "http_request",
                      Request("POST", w.ctx.url, PostHeaders(w.ctx.bearer_token),
                              LocalDescription(w))),
                  "ffurl_connect_POST", r3)
    IN
    IF HttpFailed(r3) THEN whip_write_header_fail(w3, TRUE, r3)
    ELSE
    LET r4 == Res(out, "read", AVERROR_EIO)
        w4 == Log(w3, "ffurl_read_complete", r4)
    IN
    IF HttpFailed(r4) THEN whip_write_header_fail(w4, TRUE, r4)
    ELSE
    LET r5 == Res(out, "remote_description", -1)
        w5 == Log(w4, "rtcSetRemoteDescription", r5)
    IN
    IF EngineFailed(r5) THEN whip_write_header_fail(w5, TRUE, AVERROR_EXTERNAL)
    ELSE
    LET r6 == Res(out, "close", AVERROR_EIO)
        w6 == Log(Log([w5 EXCEPT !.ctx.resource_location = loc],
                      "av_opt_get_new_location", loc),
                  "ffurl_closep", r6)
    IN
    IF HttpFailed(r6) THEN whip_write_header_fail(w6, FALSE, r6)
    ELSE [w |-> Log(w6, "wait_begin", 0), ret |-> 0]

NoWait ==
    [timeout |-> 0, wakeAt |-> 0, rdHead |-> "RTC_NEW", rd |-> "RTC_NEW", rdTime |-> 0,
     cause |-> "none"]

\* the caller invokes write_header: the signaling exchange, then
\* timeout = av_gettime_relative() + s->connection_timeout
whip_write_header ==
    /\ variant = "whip"
    /\ pc = "inited"
    /\ \E out \in HeaderOutcomes, loc \in Locations :
          LET r == whip_write_header_exchange(World, out, loc)
          IN  /\ Commit(r, IF r.ret = 0 THEN "wait_head" ELSE "header_failed")
              /\ wait' = IF r.ret = 0
                         THEN [NoWait EXCEPT !.timeout = now + ctx.connection_timeout]
                         ELSE wait
              /\ hist' = IF r.ret = 0 /\ ctx.state = "RTC_CONNECTED"
                         THEN [hist EXCEPT !.connBefore = TRUE, !.everConnected = TRUE]
                         ELSE hist
    /\ UNCHANGED <<variant, streams, now>>

WaitPcs == {"wait_head", "wait_failed", "wait_closed", "wait_time", "wait_sleep"}

\* a loop that also ends once the engine reports RTC_CONNECTING
WaitLoopCond_EndsOnConnecting(st) == st \notin {"RTC_CONNECTED", "RTC_CONNECTING"}

\* while (s->state != RTC_CONNECTED): does the loop go on for this read
WaitLoopCond(st) == st # "RTC_CONNECTED"

\* the read of s->state in the condition of the while loop (whip.c:383)
wait_head ==
    /\ pc = "wait_head"
    /\ wait' = [wait EXCEPT !.rdHead = ctx.state, !.rd = ctx.state]
    /\ IF WaitLoopCond(ctx.state)
       THEN pc' = "wait_failed" /\ ret' = ret
       ELSE pc' = "established" /\ ret' = 0
    /\ UNCHANGED <<variant, streams, ctx, now, env, trace, hist>>

\* the error the wait returns, whatever ended it (whip.c:386)
WaitRet(cause) == AVERROR_EXTERNAL

\* `goto fail` out of the wait loop: whip_deinit, return ret
WaitFail(cause) ==
    /\ Commit([w |-> Deinit(World), ret |-> WaitRet(cause)], "header_failed")
    /\ UNCHANGED <<variant, streams, now, hist>>

\* a check that takes RTC_DISCONNECTED for a failure too
WaitIsFailed_OrDisconnected(st) == st \in {"RTC_FAILED", "RTC_DISCONNECTED"}

\* s->state == RTC_FAILED (whip.c:384)
WaitIsFailed(st) == st = "RTC_FAILED"
\* s->state == RTC_CLOSED (whip.c:384)
WaitIsClosed(st) == st = "RTC_CLOSED"
\* a wait without a deadline
WaitTimedOut_Never(t, timeout) == FALSE

\* av_gettime_relative() > timeout (whip.c:384)
WaitTimedOut(t, timeout) == t > timeout

\* the read of s->state compared with RTC_FAILED
wait_failed ==
    /\ pc = "wait_failed"
    /\ IF WaitIsFailed(ctx.state)
       THEN /\ wait' = [wait EXCEPT !.rd = ctx.state, !.cause = "terminal"]
            /\ WaitFail("terminal")
       ELSE /\ wait' = [wait EXCEPT !.rd = ctx.state]
            /\ pc' = "wait_closed"
            /\ UNCHANGED <<variant, streams, ctx, ret, now, env, trace, hist>>

\* the read of s->state compared with RTC_CLOSED
wait_closed ==
    /\ pc = "wait_closed"
    /\ IF WaitIsClosed(ctx.state)
       THEN /\ wait' = [wait EXCEPT !.rd = ctx.state, !.cause = "terminal"]
            /\ WaitFail("terminal")
       ELSE /\ wait' = [wait EXCEPT !.rd = ctx.state]
            /\ pc' = "wait_time"
            /\ UNCHANGED <<variant, streams, ctx, ret, now, env, trace, hist>>

\* the read of the clock, then av_usleep(100000) when the deadline holds
wait_time ==
    /\ pc = "wait_time"
    /\ IF WaitTimedOut(now, wait.timeout)
       THEN /\ wait' = [wait EXCEPT !.rdTime = now, !.cause = "timeout"]
            /\ WaitFail("timeout")
       ELSE /\ wait' = [wait EXCEPT !.rdTime = now, !.wakeAt = now + PollInterval]
            /\ pc' = "wait_sleep"
            /\ UNCHANGED <<variant, streams, ctx, ret, now, env, trace, hist>>

\* av_usleep returns, not before the interval has passed
wait_sleep ==
    /\ pc = "wait_sleep"
    /\ now >= wait.wakeAt
    /\ pc' = "wait_head"
    /\ wait' = [wait EXCEPT !.wakeAt = 0, !.rdTime = 0]
    /\ UNCHANGED <<variant, streams, ctx, ret, now, env, trace, hist>>

\* the clock advances while the caller waits
Tick ==
    /\ pc \in WaitPcs
    /\ now < wait.timeout + MaxOvershoot
    /\ now' = now + 1
    /\ UNCHANGED <<variant, streams, ctx, pc, ret, wait, env, trace, hist>>

(* ----------------------- whip_on_state_change ------------------------- *)
\* s->state = state (whip.c:76)
StateAfterChange(old, st) == st

\* the engine's thread notifies a state change; the callback is registered
\* on a live peer connection whose negotiation has started
whip_on_state_change ==
    /\ ctx.peer_connection \in env.pcs
    /\ env.localDesc
    /\ \E st \in RtcStates \ {ctx.state} :
          /\ ctx' = [ctx EXCEPT !.state = StateAfterChange(ctx.state, st)]
          /\ hist' = IF st = "RTC_CONNECTED" /\ pc \in WaitPcs
                     THEN [hist EXCEPT !.everConnected = TRUE,
                                       !.connBefore = @ \/ now < wait.timeout]
                     ELSE hist
    /\ UNCHANGED <<variant, streams, pc, ret, now, wait, env, trace>>

(* ------------------------ whip_write_packet --------------------------- *)
PtsValues == {-1, 0, 7}

PacketOutcomes == {"ok", "timestamp", "send"}

\* the element of s->tracks the packet's stream_index selects
TrackOf(w, idx) == w.ctx.tracks.slots[idx + 1].track_id

\* a router that lets every timestamp through
InvalidPts_Unchecked(pts) == FALSE

\* pkt->pts < 0 (whip.c:412)
InvalidPts(pts) == pts < 0

\* whip_write_packet past the test of s->state (whip.c:412-427): out is the
\* engine call that fails; the engine refuses a track it does not hold
whip_write_packet_send(w, p, out) ==
    IF InvalidPts(p.pts) THEN [w |-> w, ret |-> AVERROR_EINVAL]
    ELSE
    LET id == TrackOf(w, p.stream_index)
        w1 == Log(w, "rtcSetTrackRtpTimestamp", id)
    IN  IF out = "timestamp" \/ id \notin w.env.tracks
        THEN [w |-> w1, ret |-> AVERROR_EXTERNAL]
        ELSE LET w2 == Log(w1, "rtcSendMessage", id)
             IN  IF out = "send" THEN [w |-> w2, ret |-> AVERROR_EXTERNAL]
                 ELSE [w |-> w2, ret |-> 0]

\* a check that refuses a session that is still connecting and lets a
\* disconnected one through
EofStates_RefusesConnecting == <<"RTC_CONNECTING", "RTC_FAILED", "RTC_CLOSED">>

\* the states for which whip_write_packet returns AVERROR_EOF (whip.c:408),
\* in the order the condition reads s->state
EofStates == <<"RTC_DISCONNECTED", "RTC_FAILED", "RTC_CLOSED">>

\* the caller invokes write_packet; the first read of s->state
whip_write_packet ==
    /\ variant = "whip"
    /\ pc = "established"
    /\ hist.npkts < MaxPackets
    /\ \E idx \in 0..(nb_streams - 1), pts \in PtsValues :
          hist' = [hist EXCEPT !.npkts = @ + 1,
                               !.pkt = [stream_index |-> idx, pts |-> pts,
                                        tlen |-> Len(trace), reads |-> <<ctx.state>>,
                                        start |-> ctx.state, index_out |-> idx]]
    /\ IF ctx.state = EofStates[1]
       THEN pc' = "established" /\ ret' = AVERROR_EOF
       ELSE pc' = "packet_check" /\ ret' = ret
    /\ UNCHANGED <<variant, streams, ctx, now, wait, env, trace>>

\* the second and third read of s->state in the condition, then the rest of
\* whip_write_packet
whip_write_packet_check ==
    /\ pc = "packet_check"
    /\ LET k == Len(hist.pkt.reads) + 1
           h1 == [hist EXCEPT !.pkt.reads = Append(@, ctx.state)]
       IN  IF ctx.state = EofStates[k]
           THEN /\ pc' = "established" /\ ret' = AVERROR_EOF /\ hist' = h1
                /\ UNCHANGED <<ctx, env, trace>>
           ELSE IF k < Len(EofStates)
           THEN /\ pc' = "packet_check" /\ ret' = ret /\ hist' = h1
                /\ UNCHANGED <<ctx, env, trace>>
           ELSE /\ hist' = h1
                /\ \E out \in PacketOutcomes :
                      Commit(whip_write_packet_send(World, hist.pkt, out), "established")
    /\ UNCHANGED <<variant, streams, now, wait>>

\* what reading s->tracks[pkt->stream_index] gives (whip.c:417): the
\* element when the array exists; once whip_deinit has freed it and set the
\* pointer to NULL the read is undefined: the process crashes, or the read
\* yields some value
TrackReads(w, idx) ==
    IF w.ctx.tracks.null
    THEN {[crash |-> TRUE, id |-> 0]} \cup {[crash |-> FALSE, id |-> v] : v \in GarbageVals}
    ELSE {[crash |-> FALSE, id |-> TrackOf(w, idx)]}

\* whip_write_packet called after write_header failed and ran whip_deinit.
\* The peer connection is deleted, so no notification arrives during the
\* call and its reads of s->state all give the same value.
whip_write_packet_late ==
    /\ variant = "whip"
    /\ pc = "header_failed"
    /\ hist.npkts < MaxPackets
    /\ \E idx \in 0..(nb_streams - 1), pts \in PtsValues, out \in PacketOutcomes :
          /\ hist' = [hist EXCEPT !.npkts = @ + 1,
                                  !.pkt = [stream_index |-> idx, pts |-> pts,
                                           tlen |-> Len(trace),
                                           reads |-> [k \in 1..Len(EofStates) |-> ctx.state],
                                           start |-> ctx.state, index_out |-> idx]]
          /\ IF \E k \in 1..Len(EofStates) : ctx.state = EofStates[k]
             THEN ret' = AVERROR_EOF /\ UNCHANGED <<ctx, env, trace, pc>>
             ELSE IF InvalidPts(pts)
             THEN ret' = AVERROR_EINVAL /\ UNCHANGED <<ctx, env, trace, pc>>
             ELSE \E rd \in TrackReads(World, idx) :
                     IF rd.crash
                     THEN pc' = "crashed" /\ UNCHANGED <<ctx, env, trace, ret>>
                     ELSE LET w1 == Log(World, "rtcSetTrackRtpTimestamp", rd.id) IN
                          IF out = "timestamp" \/ rd.id \notin env.tracks
                          THEN Commit([w |-> w1, ret |-> AVERROR_EXTERNAL], pc)
                          ELSE LET w2 == Log(w1, "rtcSendMessage", rd.id) IN
                               Commit([w |-> w2,
                                       ret |-> IF out = "send" THEN AVERROR_EXTERNAL ELSE 0],
                                      pc)
    /\ UNCHANGED <<variant, streams, now, wait>>

(* --------------------- pkt->pts at its full width --------------------- *)
\* An int64_t is written as its four 16-bit limbs, least significant first
\* (two's complement): <<7, 0, 1, 0>> is 2^32 + 7, <<0, 0, 0, 32768>> is
\* -2^63. A uint32_t is written as two limbs.
Pts64Values ==
    { <<0, 0, 0, 0>>, <<7, 0, 0, 0>>, <<65535, 65535, 0, 0>>,
      <<0, 0, 1, 0>>, <<7, 0, 1, 0>>, <<65535, 32767, 9, 0>>,
      <<65535, 65535, 65535, 32767>>,
      <<0, 0, 0, 32768>>, <<65535, 65535, 65535, 65535>> }

\* the sign of an int64_t: -1, 0 or 1
SignOf64(p) ==
    IF p[4] >= 32768 THEN -1
    ELSE IF p = <<0, 0, 0, 0>> THEN 0 ELSE 1

\* a conversion that clamps what does not fit in 32 bits
CastUint32_Saturating(p) ==
    IF p[3] = 0 /\ p[4] = 0 THEN SubSeq(p, 1, 2) ELSE <<65535, 65535>>

\* (uint32_t)pkt->pts (whip.c:417): the conversion of a signed 64-bit value
\* to an unsigned 32-bit one keeps the low 32 bits
CastUint32(p) == SubSeq(p, 1, 2)

\* whip_write_packet (whip.c:404-428) on the packet the caller holds, with
\* the timestamp at its full width; no notification arrives during the call
\* so its reads of s->state give the same value. The event of
\* rtcSetTrackRtpTimestamp carries both arguments of the call.
whip_write_packet_pts ==
    /\ variant = "whip"
    /\ pc = "established"
    /\ hist.npkts < 1
    /\ \E idx \in 0..(nb_streams - 1), out \in PacketOutcomes :
          /\ hist' = [hist EXCEPT !.npkts = @ + 1,
                                  !.pkt.stream_index = idx,
                                  !.pkt.index_out = idx,
                                  !.pkt.tlen = Len(trace),
                                  !.pkt.reads = [k \in 1..Len(EofStates) |-> ctx.state],
                                  !.pkt.start = ctx.state]
          /\ IF \E k \in 1..Len(EofStates) : ctx.state = EofStates[k]
             THEN ret' = AVERROR_EOF /\ UNCHANGED <<ctx, env, trace, pc>>
             ELSE IF InvalidPts(SignOf64(hist.pkt.pts))
             THEN ret' = AVERROR_EINVAL /\ UNCHANGED <<ctx, env, trace, pc>>
             ELSE LET id == TrackOf(World, idx)
                      w1 == Log(World, "rtcSetTrackRtpTimestamp",
                                [track |-> id, timestamp |-> CastUint32(hist.pkt.pts)])
                  IN  IF out = "timestamp" \/ id \notin env.tracks
                      THEN Commit([w |-> w1, ret |-> AVERROR_EXTERNAL], pc)
                      ELSE LET w2 == Log(w1, "rtcSendMessage", id) IN
                           /\ Commit([w |-> w2,
                                      ret |-> IF out = "send" THEN AVERROR_EXTERNAL ELSE 0],
                                     pc)
    /\ UNCHANGED <<variant, streams, now, wait>>

(* ------------------------ whip_write_trailer -------------------------- *)
TrailerOutcomes == {"alloc", "connect", "close", "ok"}

\* av_freep(&s->resource_location) after the DELETE went through (whip.c:465)
LocationAfterDelete(loc) == NULL

\* whip_write_trailer (whip.c:430-475); out is the first call that fails
whip_write_trailer_op(w, out) ==
    IF w.ctx.resource_location = NULL THEN [w |-> w, ret |-> 0]
    ELSE IF out = "alloc" THEN [w |-> Log(w, "ffurl_alloc", -1), ret |-> AVERROR_ENOMEM]
    ELSE
    LET w1 == Log(Log(w, "ffurl_alloc", 0), "http_request",
                  Request("DELETE", w.ctx.resource_location,
                          DeleteHeaders(w.ctx.bearer_token), NULL))
    IN
    IF out = "connect"
    THEN [w |-> Log(Log(w1, "ffurl_connect_DELETE", -1), "ffurl_closep", 0), ret |-> AVERROR_EIO]
    ELSE
    LET w2 == Log(w1, "ffurl_connect_DELETE", 0) IN
    IF out = "close" THEN [w |-> Log(w2, "ffurl_closep", -1), ret |-> AVERROR_EIO]
    ELSE [w |-> [Log(w2, "ffurl_closep", 0) EXCEPT
                    !.ctx.resource_location = LocationAfterDelete(@)],
          ret |-> 0]

\* the caller invokes write_trailer
whip_write_trailer ==
    /\ variant = "whip"
    /\ pc \in {"established", "trailer_done"}
    /\ hist.trailers < MaxTrailers
    /\ \E out \in TrailerOutcomes :
          Commit(whip_write_trailer_op(World, out), "trailer_done")
    /\ hist' = [hist EXCEPT !.trailers = @ + 1,
                            !.trailerRets = Append(@, ret'),
                            !.trailerHttp = Append(@, ctx.resource_location # NULL)]
    /\ UNCHANGED <<variant, streams, now, wait>>

\* the caller invokes deinit
whip_deinit_call ==
    /\ variant = "whip"
    /\ pc \in {"init_failed", "inited", "header_failed", "established", "trailer_done",
               "deinited"}
    /\ Commit([w |-> whip_deinit(World), ret |-> ret], "deinited")
    /\ UNCHANGED <<variant, streams, now, wait, hist>>

(* --------------------------- webrtc_mux.c ----------------------------- *)
MuxOutcomes == {"ok", "urlcontext", "chain_open", "sdp", "add_zero", "add_neg"}

\* one turn of the loop of whip_init (webrtc_mux.c:71-144) for stream i;
\* exit is "next" when the loop goes on, "fail" for `goto fail` and "return"
\* for `return ret`
mux_init_stream(w, i, out) ==
    LET par == streams[i] IN
    IF par.codec_type \notin {"video", "audio"} THEN [w |-> w, ret |-> 0, exit |-> "next"]
    ELSE IF par.codec_type = "audio" /\ BadRate(par)
    THEN [w |-> w, ret |-> AVERROR_EINVAL, exit |-> "fail"]
    ELSE IF par.codec_type = "audio" /\ BadLayout(par)
    THEN [w |-> w, ret |-> AVERROR_EINVAL, exit |-> "fail"]
    ELSE
    LET u == webrtc_init_urlcontext(w, i, out # "urlcontext") IN
    IF u.ret < 0 THEN [w |-> u.w, ret |-> u.ret, exit |-> "return"]
    ELSE IF out = "chain_open"
    THEN [w |-> [u.w EXCEPT !.ctx.tracks.slots[i].rtp_url_context = FALSE,
                            !.env.bridges = @ \ {i}],
          ret |-> AVERROR_EIO, exit |-> "return"]
    ELSE
    LET w1 == [u.w EXCEPT !.ctx.tracks.slots[i].rtp_ctx = TRUE, !.env.subs = @ \cup {i}] IN
    IF webrtc_convert_codec(par.codec_id) < 0
    THEN [w |-> w1, ret |-> webrtc_convert_codec(par.codec_id), exit |-> "fail"]
    ELSE IF out = "sdp" THEN [w |-> w1, ret |-> AVERROR_EINVAL, exit |-> "fail"]
    ELSE LET id == AddTrackResult(w1, out)
             w2 == SetSlot(rtcAddTrackEx(w1, id), i, id)
         IN  IF id < 0 THEN [w |-> w2, ret |-> AVERROR_EINVAL, exit |-> "fail"]
             ELSE [w |-> w2, ret |-> 0, exit |-> "next"]

RECURSIVE mux_init_loop(_, _, _)
mux_init_loop(w, i, outs) ==
    IF i > nb_streams THEN [w |-> w, ret |-> 0, exit |-> "next", at |-> i]
    ELSE LET r == mux_init_stream(w, i, outs[i])
         IN  IF r.exit # "next" THEN [w |-> r.w, ret |-> r.ret, exit |-> r.exit, at |-> i]
             ELSE mux_init_loop(r.w, i + 1, outs)

MuxOutcomeSeqs(n) ==
    {[i \in 1..n |-> "ok"]} \cup
    {[i \in 1..n |-> IF i = k THEN o ELSE "ok"] : k \in 1..n, o \in MuxOutcomes \ {"ok"}}

\* whip_init of webrtc_mux.c (webrtc_mux.c:41-155); in.conn is the outcome
\* of webrtc_init_connection, in.malloc whether av_mallocz succeeds
mux_whip_init_op(w, in) ==
    LET c == webrtc_init_connection(w, in.conn) IN
    IF c.ret < 0 THEN [w |-> webrtc_deinit(c.w), ret |-> c.ret, at |-> 0]
    ELSE IF ~in.malloc THEN [w |-> webrtc_deinit(c.w), ret |-> AVERROR_ENOMEM, at |-> 0]
    ELSE
    LET w1 == [c.w EXCEPT !.ctx.tracks =
                   [null |-> FALSE, slots |-> [i \in 1..nb_streams |-> Slot(0, FALSE, FALSE)]]]
        r == mux_init_loop(w1, 1, in.outs)
    IN  CASE r.exit = "fail" -> [w |-> webrtc_deinit(r.w), ret |-> r.ret, at |-> r.at]
          [] r.exit = "return" -> [w |-> r.w, ret |-> r.ret, at |-> r.at]
          [] OTHER -> [w |-> r.w, ret |-> 0, at |-> r.at]

MuxInitInputs ==
    [conn : {"ok", "create", "callback"}, malloc : BOOLEAN, outs : MuxOutcomeSeqs(nb_streams)]

\* the caller invokes init of the muxer of webrtc_mux.c
mux_whip_init ==
    /\ variant = "mux"
    /\ pc = "start"
    /\ \E in \in MuxInitInputs :
          LET r == mux_whip_init_op(World, in)
          IN  /\ Commit(r, IF r.ret = 0 THEN "inited" ELSE "init_failed")
              /\ hist' = [hist EXCEPT !.initAt = r.at]
    /\ UNCHANGED <<variant, streams, now, wait>>

\* whip_write_header of webrtc_mux.c up to the wait (webrtc_mux.c:163-170)
mux_whip_write_header ==
    /\ variant = "mux"
    /\ pc = "inited"
    /\ \E out \in HeaderOutcomes, loc \in Locations :
          LET c == webrtc_create_resource(World, out, loc)
              r == IF c.ret < 0 THEN [w |-> webrtc_deinit(c.w), ret |-> c.ret]
                   ELSE [w |-> Log(c.w, "wait_begin", 0), ret |-> 0]
          IN  /\ Commit(r, IF r.ret = 0 THEN "wait_head" ELSE "header_failed")
              /\ wait' = IF r.ret = 0
                         THEN [NoWait EXCEPT !.timeout = now + ctx.connection_timeout]
                         ELSE wait
              /\ hist' = IF r.ret = 0 /\ ctx.state = "RTC_CONNECTED"
                         THEN [hist EXCEPT !.connBefore = TRUE, !.everConnected = TRUE]
                         ELSE hist
    /\ UNCHANGED <<variant, streams, now>>

\* what av_write_frame / av_read_frame on a track's sub-pipeline return
PipelineResults == {0, AVERROR_EOF, AVERROR_EIO}

\* whip_write_packet of webrtc_mux.c (webrtc_mux.c:189-195)
mux_whip_write_packet ==
    /\ variant = "mux"
    /\ pc = "established"
    /\ hist.npkts < MaxPackets
    /\ \E idx \in 0..(nb_streams - 1), pts \in PtsValues, res \in PipelineResults :
          /\ ctx.tracks.slots[idx + 1].rtp_ctx
          /\ hist' = [hist EXCEPT !.npkts = @ + 1,
                                  !.pkt = [stream_index |-> idx, pts |-> pts,
                                           tlen |-> Len(trace), reads |-> <<>>,
                                           start |-> ctx.state, index_out |-> 0]]
          /\ trace' = Append(trace, Ev("av_write_frame", idx))
          /\ ret' = res
    /\ UNCHANGED <<variant, streams, ctx, pc, now, wait, env>>

\* whip_write_trailer of webrtc_mux.c
mux_whip_write_trailer ==
    /\ variant = "mux"
    /\ pc \in {"established", "trailer_done"}
    /\ hist.trailers < MaxTrailers
    /\ \E ok \in BOOLEAN : Commit(webrtc_close_resource(World, ok), "trailer_done")
    /\ hist' = [hist EXCEPT !.trailers = @ + 1,
                            !.trailerRets = Append(@, ret'),
                            !.trailerHttp = Append(@, ctx.resource_location # NULL)]
    /\ UNCHANGED <<variant, streams, now, wait>>

\* whip_deinit of webrtc_mux.c, invoked by the caller
mux_whip_deinit_call ==
    /\ variant = "mux"
    /\ pc \in {"init_failed", "inited", "header_failed", "established", "trailer_done"}
    /\ Commit([w |-> webrtc_deinit(World), ret |-> ret], "deinited")
    /\ UNCHANGED <<variant, streams, now, wait, hist>>

(* -------------------------- webrtc_demux.c ---------------------------- *)
\* the calls of the per-track part of whep_read_header that can fail, in
\* the order the code makes them (webrtc_demux.c:117-174)
WhepTrackStages ==
    <<"description", "find_format", "alloc", "lists", "open_input", "urlcontext",
      "fdopen", "new_stream", "copy">>

StageNo(stage) == CHOOSE k \in 1..Len(WhepTrackStages) : WhepTrackStages[k] = stage

\* the error whep_read_header holds in ret when it leaves track i's turn at
\* the failing stage; desc is what rtcGetTrackDescription returned
WhepStageRet(stage, desc) ==
    CASE stage = "description" -> desc
      [] stage = "find_format" -> desc
      [] stage \in {"alloc", "new_stream"} -> AVERROR_ENOMEM
      [] OTHER -> AVERROR_EIO

\* one turn of the loop that builds the receiving sub-pipelines, for track i
\* (1-based); fail is the stage that fails, "ok" when none does
whep_track(w, i, fail) ==
    LET id == w.ctx.tracks.slots[i].track_id
        desc == IF id \notin w.env.tracks \/ fail = "description" THEN RTC_ERR_INVALID ELSE 1
        stop == IF desc < 0 THEN "description" ELSE fail
        reached(stage) == stop = "ok" \/ StageNo(stop) > StageNo(stage)
        \* avformat_open_input frees the context it is given when it fails
        w1 == [w EXCEPT !.ctx.tracks.slots[i].rtp_ctx = reached("open_input"),
                        !.env.subs = IF reached("open_input") THEN @ \cup {i} ELSE @,
                        !.ctx.tracks.slots[i].rtp_url_context = reached("urlcontext"),
                        !.env.bridges = IF reached("urlcontext") THEN @ \cup {i} ELSE @]
    IN  [w |-> w1,
         ret |-> IF stop = "ok" THEN 0 ELSE WhepStageRet(stop, desc),
         failed |-> stop # "ok",
         stream |-> reached("new_stream")]

WhepInputs ==
    [pre : {"ok", "create", "callback", "msid", "malloc"},
     video : {"ok", "add_zero", "add_neg"},
     audio : {"ok", "add_zero", "add_neg"},
     res : HeaderOutcomes,
     loc : Locations,
     track : 1..2,
     stage : {"ok"} \cup {WhepTrackStages[k] : k \in 1..Len(WhepTrackStages)}]

\* whep_read_header (webrtc_demux.c:36-181): the world it leaves, what it
\* returns and the streams it has declared
whep_read_header_op(w, in) ==
    LET fail(x, r) == [w |-> webrtc_deinit(x), ret |-> r, streams |-> <<>>]
        c == webrtc_init_connection(w, IF in.pre \in {"create", "callback"} THEN in.pre ELSE "ok")
    IN
    IF c.ret < 0 THEN fail(c.w, c.ret)
    ELSE IF in.pre = "msid" THEN fail(c.w, AVERROR_EXTERNAL)
    ELSE IF in.pre = "malloc" THEN fail(c.w, AVERROR_ENOMEM)
    ELSE
    LET w1 == [c.w EXCEPT !.ctx.tracks =
                   [null |-> FALSE, slots |-> [i \in 1..2 |-> Slot(0, FALSE, FALSE)]]]
        vid == AddTrackResult(w1, in.video)
        w2 == SetSlot(rtcAddTrackEx(w1, vid), 1, vid)
    IN
    IF vid = 0 THEN fail(w2, AVERROR_EXTERNAL)
    ELSE
    LET aid == AddTrackResult(w2, in.audio)
        w3 == SetSlot(rtcAddTrackEx(w2, aid), 2, aid)
    IN
    IF aid = 0 THEN fail(w3, AVERROR_EXTERNAL)
    ELSE
    LET r == webrtc_create_resource(w3, in.res, in.loc) IN
    IF r.ret < 0 THEN fail(r.w, r.ret)
    ELSE
    LET t1 == whep_track(r.w, 1, IF in.track = 1 THEN in.stage ELSE "ok") IN
    IF t1.failed
    THEN [w |-> webrtc_deinit(t1.w), ret |-> t1.ret,
          streams |-> IF t1.stream THEN <<Stream("video", "H264", 0, FALSE)>> ELSE <<>>]
    ELSE
    LET t2 == whep_track(t1.w, 2, IF in.track = 2 THEN in.stage ELSE "ok")
        ss == <<Stream("video", "H264", 0, FALSE)>> \o
              (IF t2.stream THEN <<Stream("audio", "OPUS", 48000, TRUE)>> ELSE <<>>)
    IN  IF t2.failed THEN [w |-> webrtc_deinit(t2.w), ret |-> t2.ret, streams |-> ss]
        ELSE [w |-> t2.w, ret |-> 0, streams |-> ss]

\* the caller invokes read_header (avformat_open_input)
whep_read_header ==
    /\ variant = "whep"
    /\ pc = "start"
    /\ \E in \in WhepInputs :
          LET r == whep_read_header_op(World, in)
          IN  /\ Commit(r, IF r.ret = 0 THEN "established" ELSE "header_failed")
              /\ streams' = r.streams
    /\ UNCHANGED <<variant, now, wait, hist>>

\* a reader that always takes the first track
WhepTrackOf_First(idx) == 0

\* track = &ctx->data_channel.tracks[pkt->stream_index] (webrtc_demux.c:202)
WhepTrackOf(idx) == idx

\* pkt->stream_index = 0 (webrtc_demux.c:203)
WhepStreamIndex(idx) == 0

\* the stream index av_read_frame writes into the packet it returns: the
\* sub-pipeline of a track has the one stream whep_read_header reads as
\* rtp_ctx->streams[0] (webrtc_demux.c:173); a failed read leaves the index
\* the packet had
SubPipelineIndex(res, before) == IF res = 0 THEN 0 ELSE before

\* whep_read_packet (webrtc_demux.c:199-205): the packet's stream_index
\* selects the track, is set to 0, and av_read_frame on the track's
\* sub-pipeline decides the result
whep_read_packet ==
    /\ variant = "whep"
    /\ pc = "established"
    /\ hist.npkts < MaxPackets
    /\ \E idx \in 0..(Len(ctx.tracks.slots) - 1), res \in PipelineResults :
          /\ hist' = [hist EXCEPT !.npkts = @ + 1,
                                  !.pkt = [stream_index |-> idx, pts |-> 0,
                                           tlen |-> Len(trace), reads |-> <<>>,
                                           start |-> ctx.state,
                                           index_out |->
                                               SubPipelineIndex(res, WhepStreamIndex(idx))]]
          /\ trace' = Append(trace, Ev("av_read_frame", WhepTrackOf(idx)))
          /\ ret' = res
    /\ UNCHANGED <<variant, streams, ctx, pc, now, wait, env>>

\* a close that returns the error of the deletion at once
whep_read_close_ReturnsOnError(w, ok) ==
    LET c == webrtc_close_resource(w, ok)
    IN  IF c.ret < 0 THEN c ELSE [w |-> webrtc_deinit(c.w), ret |-> c.ret]

\* whep_read_close (webrtc_demux.c:183-197): the deletion, whose error is
\* only logged, then webrtc_deinit, then the result of the deletion
whep_read_close_op(w, ok) ==
    LET c == webrtc_close_resource(w, ok)
    IN  [w |-> webrtc_deinit(c.w), ret |-> c.ret]

\* the caller invokes read_close
whep_read_close ==
    /\ variant = "whep"
    /\ pc \in {"established", "trailer_done"}
    /\ hist.trailers < MaxTrailers
    /\ \E ok \in BOOLEAN : Commit(whep_read_close_op(World, ok), "trailer_done")
    /\ hist' = [hist EXCEPT !.trailers = @ + 1,
                            !.trailerRets = Append(@, ret'),
                            !.trailerHttp = Append(@, ctx.resource_location # NULL)]
    /\ UNCHANGED <<variant, streams, now, wait>>

(* ---------------------------- the system ------------------------------ *)
NoPacket ==
    [stream_index |-> 0, pts |-> 0, tlen |-> 0, reads |-> <<>>, start |-> "RTC_NEW",
     index_out |-> 0]

\* avctx->url, the endpoint the caller opened the format on
EndpointUrl == "https://endpoint/whip"

\* the context as av_mallocz leaves it, with the options set (bearer_token
\* at its default)
Ctx0(t) ==
    [peer_connection |-> 0, tracks |-> NullTracks, state |-> "RTC_NEW",
     resource_location |-> NULL, connection_timeout |-> t,
     bearer_token |-> NULL, url |-> EndpointUrl, rw_timeout |-> DefaultRwTimeout]

\* the same with the option bearer_token set to tok
CtxTok(t, tok) == [Ctx0(t) EXCEPT !.bearer_token = tok]

Env0 == [pcs |-> {}, tracks |-> {}, nextId |-> 2, localDesc |-> FALSE, bridges |-> {}, subs |-> {}]

Hist0 ==
    [connBefore |-> FALSE, everConnected |-> FALSE, npkts |-> 0, pkt |-> NoPacket,
     trailers |-> 0, trailerRets |-> <<>>, trailerHttp |-> <<>>, initAt |-> 0,
     opts |-> <<>>]

\* the state after construction, for a stream list, a connection_timeout and
\* a bearer_token
ConstructedTok(ss, t, tok) ==
    /\ streams = ss
    /\ ctx = CtxTok(t, tok)
    /\ pc = "start"
    /\ ret = 0
    /\ now = 0
    /\ wait = NoWait
    /\ env = Env0
    /\ trace = <<>>
    /\ hist = Hist0

Constructed(ss, t) == ConstructedTok(ss, t, NULL)

\* the bearer tokens the sessions of a format are built with
TokensOf(v) == IF v = "whip" THEN Tokens ELSE {NULL}

V_H264 == Stream("video", "H264", 0, FALSE)
A_OPUS == Stream("audio", "OPUS", 48000, TRUE)
D_DATA == Stream("data", "NONE", 0, FALSE)

\* session setup and its failure paths, over every stream list
InitSetup ==
    \/ /\ variant \in {"whip", "mux"}
       /\ \E ss \in SeqsUpTo(StreamKinds, MaxStreams) : Constructed(ss, MinTimeout)
    \/ /\ variant = "whep"
       /\ Constructed(<<>>, MinTimeout)

NextSetup ==
    \/ whip_init
    \/ whip_deinit_call
    \/ mux_whip_init
    \/ mux_whip_deinit_call
    \/ whep_read_header

SpecSetup == InitSetup /\ [][NextSetup]_vars

\* setup, the signaling exchange and the wait for the connection
InitEstablish ==
    /\ variant \in {"whip", "mux"}
    /\ \E ss \in {<<V_H264>>, <<V_H264, A_OPUS>>}, t \in MinTimeout..MaxTimeout,
          tok \in TokensOf(variant) :
          ConstructedTok(ss, t, tok)

NextEstablish ==
    \/ whip_init
    \/ whip_write_header
    \/ wait_head
    \/ wait_failed
    \/ wait_closed
    \/ wait_time
    \/ wait_sleep
    \/ Tick
    \/ whip_on_state_change
    \/ whip_deinit_call
    \/ mux_whip_init
    \/ mux_whip_write_header
    \/ mux_whip_deinit_call

SpecEstablish == InitEstablish /\ [][NextEstablish]_vars

\* the sessions whose setup and establishment succeeded, as the handlers
\* leave them; st is the connection state the engine has last notified
World0(t, tok) == [ctx |-> CtxTok(t, tok), env |-> Env0, trace |-> <<>>]

OkInit(g) ==
    [pcRes |-> 1, fail |-> "none", garbage |-> g, outs |-> [i \in 1..nb_streams |-> "ok"]]

EstablishedWorld(t, g, loc, tok) ==
    CASE variant = "whip" ->
            whip_write_header_exchange(whip_init_op(World0(t, tok), OkInit(g)).w, "ok", loc).w
      [] variant = "mux" ->
            Log(webrtc_create_resource(
                    mux_whip_init_op(World0(t, tok),
                        [conn |-> "ok", malloc |-> TRUE,
                         outs |-> [i \in 1..nb_streams |-> "ok"]]).w,
                    "ok", loc).w, "wait_begin", 0)
      [] OTHER ->
            whep_read_header_op(World0(t, tok),
                [pre |-> "ok", video |-> "ok", audio |-> "ok", res |-> "ok", loc |-> loc,
                 track |-> 1, stage |-> "ok"]).w

EstablishedStreams ==
    IF variant = "whep" THEN {<<V_H264, A_OPUS>>}
    ELSE {<<V_H264>>, <<V_H264, A_OPUS>>, <<D_DATA, A_OPUS>>}

Established(loc, tok) ==
    /\ streams \in EstablishedStreams
    /\ \E g \in GarbageSeqs(nb_streams) :
          LET w == EstablishedWorld(MinTimeout, g, loc, tok)
          IN  /\ ctx = [w.ctx EXCEPT !.state = "RTC_CONNECTED"]
              /\ env = w.env
              /\ trace = w.trace
    /\ pc = "established"
    /\ ret = 0
    /\ now = 0
    /\ wait = [NoWait EXCEPT !.timeout = MinTimeout, !.rd = "RTC_CONNECTED",
                              !.rdHead = "RTC_CONNECTED"]
    /\ hist = [Hist0 EXCEPT !.connBefore = TRUE, !.everConnected = TRUE]

\* packet routing in an established session, with the engine's notifications
InitRoute ==
    /\ variant \in Variants
    /\ \E loc \in {"/resource/1"} : Established(loc, NULL)

NextRoute ==
    \/ whip_write_packet
    \/ whip_write_packet_check
    \/ mux_whip_write_packet
    \/ whep_read_packet
    \/ whip_on_state_change

SpecRoute == InitRoute /\ [][NextRoute]_vars

\* teardown of an established session
InitTeardown ==
    /\ variant \in Variants
    /\ \E loc \in Locations, tok \in TokensOf(variant) : Established(loc, tok)

NextTeardown ==
    \/ whip_write_trailer
    \/ whip_deinit_call
    \/ mux_whip_write_trailer
    \/ mux_whip_deinit_call
    \/ whep_read_close

SpecTeardown == InitTeardown /\ [][NextTeardown]_vars

(* ------------------------------ options ------------------------------ *)
\* a table whose durations have no lower limit
OptionTable_NoMinimum(v) ==
    [connection_timeout |-> [default |-> DefaultTimeout, min |-> 0 - MaxDuration,
                             max |-> MaxDuration]] @@
    (IF v = "whip" THEN <<>>
     ELSE [rw_timeout |-> [default |-> DefaultRwTimeout, min |-> 0 - MaxDuration,
                           max |-> MaxDuration]])

\* the duration options a format declares, with default, minimum and
\* maximum: options[] of whip.c (whip.c:513), WEBRTC_OPTIONS of webrtc.h
\* for webrtc_mux.c and webrtc_demux.c (webrtc.h:55-56)
OptionTable(v) ==
    [connection_timeout |-> [default |-> DefaultTimeout, min |-> MinTimeout,
                             max |-> MaxDuration]] @@
    (IF v = "whip" THEN <<>>
     ELSE [rw_timeout |-> [default |-> DefaultRwTimeout, min |-> MinTimeout,
                           max |-> MaxDuration]])

\* the durations the caller asks for
DurationValues == {-1, 0, MinTimeout, MinTimeout + 1}

\* av_opt_set on a duration option: a value outside [min, max] of the
\* option's table entry is refused with AVERROR(ERANGE) and the field keeps
\* its value
av_opt_set_duration(c, v, name, val) ==
    LET o == OptionTable(v)[name] IN
    IF val < o.min \/ val > o.max
    THEN [ctx |-> c, ret |-> -34]
    ELSE [ctx |-> [c EXCEPT ![name] = val], ret |-> 0]

\* the context after av_opt_set_defaults, for a bearer_token
CtxDefaults(v, tok) ==
    [CtxTok(OptionTable(v).connection_timeout.default, tok)
        EXCEPT !.rw_timeout = IF v = "whip" THEN @ ELSE OptionTable(v).rw_timeout.default]

\* the caller sets a duration option on the context it allocated, before
\* it calls init
set_option ==
    /\ variant \in {"whip", "mux"}
    /\ pc = "start"
    /\ Len(hist.opts) < MaxOptionSets
    /\ \E name \in DOMAIN OptionTable(variant), val \in DurationValues :
          LET r == av_opt_set_duration(ctx, variant, name, val)
          IN  /\ ctx' = r.ctx
              /\ ret' = r.ret
              /\ hist' = [hist EXCEPT !.opts =
                              Append(@, [name |-> name, val |-> val, ret |-> r.ret])]
    /\ UNCHANGED <<variant, streams, pc, now, wait, env, trace>>

\* configuration of a context with its defaults, then init and the start
\* of the wait of write_header
InitConfigure ==
    /\ variant \in {"whip", "mux"}
    /\ streams = <<V_H264>>
    /\ ctx = CtxDefaults(variant, NULL)
    /\ pc = "start"
    /\ ret = 0
    /\ now = 0
    /\ wait = NoWait
    /\ env = Env0
    /\ trace = <<>>
    /\ hist = Hist0

NextConfigure ==
    \/ set_option
    \/ whip_init
    \/ whip_write_header
    \/ mux_whip_init
    \/ mux_whip_write_header

SpecConfigure == InitConfigure /\ [][NextConfigure]_vars

\* one session of whip.c from construction on: the caller routes packets
\* once write_header has returned success, as the muxing API requires
InitSession ==
    /\ variant = "whip"
    /\ Constructed(<<V_H264>>, MinTimeout)

NextSession ==
    \/ whip_init
    \/ whip_write_header
    \/ wait_head
    \/ wait_failed
    \/ wait_closed
    \/ wait_time
    \/ wait_sleep
    \/ Tick
    \/ whip_on_state_change
    \/ whip_write_packet
    \/ whip_write_packet_check

SpecSession == InitSession /\ [][NextSession]_vars

\* an established session of whip.c whose state the engine has taken from
\* Connected to Disconnected, Failed or Closed, and the packets routed from
\* then on
InitLatch ==
    /\ variant = "whip"
    /\ streams = <<V_H264>>
    /\ \E g \in GarbageSeqs(nb_streams),
          st \in {"RTC_DISCONNECTED", "RTC_FAILED", "RTC_CLOSED"} :
          LET w == EstablishedWorld(MinTimeout, g, "/resource/1", NULL)
          IN  /\ ctx = [w.ctx EXCEPT !.state = StateAfterChange("RTC_CONNECTED", st)]
              /\ env = w.env
              /\ trace = w.trace
    /\ pc = "established"
    /\ ret = 0
    /\ now = 0
    /\ wait = [NoWait EXCEPT !.timeout = MinTimeout, !.rd = "RTC_CONNECTED",
                              !.rdHead = "RTC_CONNECTED"]
    /\ hist = [Hist0 EXCEPT !.connBefore = TRUE, !.everConnected = TRUE]

NextLatch ==
    \/ whip_write_packet
    \/ whip_write_packet_check
    \/ whip_on_state_change

SpecLatch == InitLatch /\ [][NextLatch]_vars

\* a session of whip.c whose caller goes on after a failed write_header:
\* with write_packet calls and with deinit
InitAfterFailure ==
    /\ variant = "whip"
    /\ Constructed(<<V_H264>>, MinTimeout)

NextAfterFailure ==
    \/ whip_init
    \/ whip_write_header
    \/ wait_head
    \/ wait_failed
    \/ wait_closed
    \/ wait_time
    \/ wait_sleep
    \/ Tick
    \/ whip_on_state_change
    \/ whip_write_packet_late
    \/ whip_deinit_call

SpecAfterFailure == InitAfterFailure /\ [][NextAfterFailure]_vars

\* setup, the exchange and the wait under a scheduler that lets the calling
\* thread run and a clock that advances; the engine notifies when it likes,
\* or never
InitWait ==
    /\ variant \in {"whip", "mux"}
    /\ \E t \in MinTimeout..MaxTimeout : Constructed(<<V_H264>>, t)

NextWait ==
    \/ whip_init
    \/ whip_write_header
    \/ mux_whip_init
    \/ mux_whip_write_header
    \/ wait_head
    \/ wait_failed
    \/ wait_closed
    \/ wait_time
    \/ wait_sleep
    \/ Tick
    \/ whip_on_state_change

SpecWait ==
    /\ InitWait /\ [][NextWait]_vars
    /\ WF_vars(wait_head) /\ WF_vars(wait_failed) /\ WF_vars(wait_closed)
    /\ WF_vars(wait_time) /\ WF_vars(wait_sleep) /\ WF_vars(Tick)

\* an established session of whip.c that the engine has notified of some
\* state, and a packet of any presentation timestamp in the caller's hand
InitTimestamp ==
    /\ variant = "whip"
    /\ streams \in {<<V_H264>>, <<V_H264, A_OPUS>>}
    /\ \E g \in GarbageSeqs(nb_streams), st \in RtcStates :
          LET w == EstablishedWorld(MinTimeout, g, "/resource/1", NULL)
          IN  /\ ctx = [w.ctx EXCEPT !.state = st]
              /\ env = w.env
              /\ trace = w.trace
    /\ pc = "established"
    /\ ret = 0
    /\ now = 0
    /\ wait = [NoWait EXCEPT !.timeout = MinTimeout, !.rd = "RTC_CONNECTED",
                              !.rdHead = "RTC_CONNECTED"]
    /\ \E p \in Pts64Values :
          hist = [Hist0 EXCEPT !.connBefore = TRUE, !.everConnected = TRUE,
                               !.pkt.pts = p]

NextTimestamp == whip_write_packet_pts

SpecTimestamp == InitTimestamp /\ [][NextTimestamp]_vars

(* ============================== claims ================================ *)
WaitEnded == pc \in {"established", "header_failed"} /\ Happened("wait_begin")

\* C1 (as stated): the wait returns success if and only if the state was
\* Connected at some moment of the wait strictly before the deadline.
C1_SuccessIffConnectedBeforeDeadline ==
    WaitEnded => (ret = 0 <=> hist.connBefore)

\* C1 (amended): the wait returns success exactly when the read of the
\* state at the head of the loop returns Connected; a success implies that
\* the state was Connected at some moment of the wait (not necessarily
\* before the deadline), and a failure implies that a read of that iteration
\* returned Failed or Closed or that its clock read was past the deadline.
C1_SuccessIffHeadReadConnected ==
    WaitEnded =>
        /\ ret = 0 <=> wait.rdHead = "RTC_CONNECTED"
        /\ ret = 0 <=> pc = "established"
        /\ ret = 0 => hist.everConnected
        /\ ret # 0 =>
              \/ wait.cause = "terminal" /\ wait.rd \in {"RTC_FAILED", "RTC_CLOSED"}
              \/ wait.cause = "timeout" /\ wait.rdTime > wait.timeout

\* C1 witness: the wait slept at least once, then a head read saw Connected
\* after the deadline had passed
C1_Witness ==
    /\ pc = "established" /\ Happened("wait_begin") /\ ret = 0
    /\ ~hist.connBefore /\ hist.everConnected /\ now > wait.timeout

\* C2 (as stated): when the wait ends on a Failed or Closed state, establish
\* returns an error value different from the one it returns on a timeout.
C2_ConnectionFailedDiffersFromTimeout ==
    (pc = "header_failed" /\ wait.cause = "terminal") =>
        (ret < 0 /\ ret # WaitRet("timeout"))

C4_TeardownIdempotent ==
    /\ hist.trailers >= 1 => ctx.resource_location \in {NULL, ""}
    /\ \A k \in 2..hist.trailers : ~hist.trailerHttp[k] /\ hist.trailerRets[k] = 0

\* C5 (as stated): the resource location is set while the signaling
\* handshake has succeeded and no teardown has run, and it is absent (or the
\* empty string) in every other state, the states after a failed
\* whip_write_header among them.
C5_LocationIffHandshake ==
    IF pc \in WaitPcs \cup {"established"}
    THEN ctx.resource_location # NULL
    ELSE ctx.resource_location \in {NULL, ""}

\* the last route_outbound / route_inbound call has returned
PacketDone == pc = "established" /\ hist.npkts > 0

EofRead(reads) == \E k \in 1..Len(reads) : reads[k] = EofStates[k]

C7_EndOfStreamWhenNotUsable ==
    (/\ PacketDone
     /\ hist.pkt.start \in {"RTC_DISCONNECTED", "RTC_FAILED", "RTC_CLOSED"}
     /\ \A k \in 1..Len(hist.pkt.reads) : hist.pkt.reads[k] = hist.pkt.start) =>
        (ret = AVERROR_EOF /\ Len(trace) = hist.pkt.tlen)

\* the first call of op in the trace failed
FirstFailed(op) == Happened(op) /\ trace[First(op)].arg # 0
\* op was called, its first call succeeded, and that before the first of next
Before(op, next) ==
    /\ Happened(op) /\ trace[First(op)].arg = 0
    /\ First(op) < First(next)

\* C8: in whip_write_header the remote description is applied only after
\* the POST was connected and its response read, the wait begins only after
\* the remote description was applied, and after a failed connect, read or
\* apply none of the later steps is made.
C8_ExchangeThenApplyThenWait ==
    variant = "whip" =>
        /\ Happened("ffurl_read_complete") => Before("ffurl_connect_POST", "ffurl_read_complete")
        /\ Happened("rtcSetRemoteDescription") =>
              Before("ffurl_read_complete", "rtcSetRemoteDescription")
        /\ Happened("wait_begin") => Before("rtcSetRemoteDescription", "wait_begin")
        /\ pc \in WaitPcs => Happened("wait_begin")
        /\ (\/ FirstFailed("ffurl_connect_POST")
            \/ FirstFailed("ffurl_read_complete")
            \/ FirstFailed("rtcSetRemoteDescription")) =>
              /\ ~Happened("wait_begin")
              /\ pc \in {"header_failed", "deinited"}
              /\ ret < 0

\* C8 witness: the wait runs after a complete exchange, and an exchange
\* whose read failed has been aborted
C8_Witness ==
    /\ variant = "whip"
    /\ \/ pc = "wait_sleep" /\ Before("rtcSetRemoteDescription", "wait_begin")
       \/ pc = "header_failed" /\ FirstFailed("ffurl_read_complete")

\* C9 (as stated): when init has failed, no track, bridge endpoint,
\* sub-pipeline or peer connection it created is left.
C9_SetupFailureReleasesAll ==
    pc = "init_failed" =>
        env.tracks = {} /\ env.bridges = {} /\ env.subs = {} /\ env.pcs = {}

BadAudio(par) == par.codec_type = "audio" /\ (par.sample_rate # 48000 \/ ~par.stereo)
HasBadAudio == \E i \in 1..nb_streams : BadAudio(streams[i])
FirstBadAudio == CHOOSE i \in 1..nb_streams :
                    BadAudio(streams[i]) /\ \A j \in 1..(i - 1) : ~BadAudio(streams[j])
InitReturned == pc \in {"inited", "init_failed", "deinited"}

\* C10 (as stated): with an unsupported audio stream in the list, init fails
\* with AVERROR(EINVAL) and has made no rtcAddTrackEx call.
C10_BadAudioBeforeAnyTrack ==
    (InitReturned /\ HasBadAudio) => (ret = AVERROR_EINVAL /\ ~Happened("rtcAddTrackEx"))

\* C10 (amended): with an unsupported audio stream in the list, init fails
\* and its loop never gets past the first such stream k: it makes at most
\* one rtcAddTrackEx call for each stream before k, none for k or a later
\* stream, and when it stops at k it returns AVERROR(EINVAL).
C10_BadAudioStopsSetup ==
    (InitReturned /\ HasBadAudio) =>
        /\ ret < 0
        /\ hist.initAt <= FirstBadAudio
        /\ Count("rtcAddTrackEx") <= FirstBadAudio - 1
        /\ hist.initAt = FirstBadAudio => ret = AVERROR_EINVAL

\* C10 witness: init stopped at an unsupported audio stream after it had
\* created the track of the stream before it
C10_Witness ==
    /\ pc = "init_failed" /\ HasBadAudio /\ hist.initAt = FirstBadAudio
    /\ ret = AVERROR_EINVAL /\ Happened("rtcAddTrackEx")

\* the codec of the stream has no entry in the mapping of the format built
UnmappedCodec(par) ==
    IF variant = "mux" THEN par.codec_id \notin MuxCodecs
    ELSE par.codec_id \notin {"OPUS", "AAC", "H264", "HEVC"}
HasUnmapped == \E i \in 1..nb_streams : UnmappedCodec(streams[i])
FirstUnmapped == CHOOSE i \in 1..nb_streams :
                    UnmappedCodec(streams[i]) /\ \A j \in 1..(i - 1) : ~UnmappedCodec(streams[j])
UnmappedAV(par) == par.codec_type \in {"audio", "video"} /\ UnmappedCodec(par)
HasUnmappedAV == \E i \in 1..nb_streams : UnmappedAV(streams[i])
FirstUnmappedAV == CHOOSE i \in 1..nb_streams :
                      UnmappedAV(streams[i]) /\ \A j \in 1..(i - 1) : ~UnmappedAV(streams[j])

SetupReturned == pc \in {"inited", "init_failed", "deinited", "established", "header_failed"}
\* rtcAddTrackEx has returned an identifier that is zero or negative
NonPositiveTrack ==
    \E i \in 1..Len(trace) : trace[i].op = "rtcAddTrackEx" /\ trace[i].arg <= 0

\* C12 (as stated): when rtcAddTrackEx has returned zero or a negative
\* identifier, setup returns AVERROR_EXTERNAL (so it never succeeds holding
\* such an identifier), in the muxers and in the demuxer.
C12_NonPositiveTrackIdIsTransportError ==
    (SetupReturned /\ NonPositiveTrack) => ret = AVERROR_EXTERNAL

\* nothing the session created is held any more
Released == env.tracks = {} /\ env.pcs = {} /\ env.bridges = {} /\ env.subs = {}
\* the calls of a deletion request that failed
FailedDeleteSteps ==
    {i \in 1..Len(trace) :
        /\ trace[i].op \in {"ffurl_alloc", "ffurl_connect_DELETE", "ffurl_closep"}
        /\ trace[i].arg < 0}
\* the teardown calls that returned an error
FailedTeardowns == {k \in 1..hist.trailers : hist.trailerRets[k] < 0}

\* C13: whep_read_close leaves no track, bridge endpoint, sub-pipeline or
\* peer connection behind whether or not the DELETE went through, and so
\* does whip_deinit after a write_trailer of whatever result; every teardown
\* call whose DELETE failed returned a negative result, and only those did.
C13_TeardownReleasesAndReports ==
    /\ (variant = "whep" /\ hist.trailers >= 1) => Released
    /\ pc = "deinited" => Released
    /\ Cardinality(FailedDeleteSteps) = Cardinality(FailedTeardowns)
    /\ (pc = "trailer_done" /\ hist.trailers >= 1) => ret = hist.trailerRets[hist.trailers]

\* C13 witness: read_close whose DELETE failed has released everything and
\* returned the error
C13_Witness ==
    /\ variant = "whep" /\ pc = "trailer_done" /\ hist.trailers = 1
    /\ FailedDeleteSteps # {} /\ ret < 0 /\ Released

\* the positions of the requests of a method in the trace
Requests(method) ==
    {i \in 1..Len(trace) : trace[i].op = "http_request" /\ trace[i].arg.method = method}
HasAuthorization(q) == \E h \in q.headers : h.name = "Authorization"

\* C14: every DELETE of whip_write_trailer carries Authorization: Bearer
\* <token> when the option bearer_token is set, and no Authorization header
\* when it is not.
C14_DeleteCarriesBearer ==
    variant = "whip" =>
        \A i \in Requests("DELETE") :
            /\ ctx.bearer_token # NULL =>
                  Header("Authorization", <<"Bearer", ctx.bearer_token>>) \in trace[i].arg.headers
            /\ ctx.bearer_token = NULL => ~HasAuthorization(trace[i].arg)

\* the tracks the engine holds at position i of the trace
TracksAt(i) ==
    {trace[j].arg : j \in {k \in 1..i : trace[k].op = "rtcAddTrackEx" /\ trace[k].arg > 0}}

\* C15: the request whip_write_header connects is a POST to the URL of the
\* output, its body is the offer the engine gave for the tracks added, it
\* has the header Content-type: application/sdp, and it has the header
\* Authorization: Bearer <token> exactly when bearer_token is set; the POST
\* is never connected without that request.
C15_OfferRequest ==
    variant = "whip" =>
        /\ \A i \in 1..Len(trace) :
              trace[i].op = "http_request" =>
                  LET q == trace[i].arg IN
                  /\ q.method = "POST"
                  /\ q.url = EndpointUrl
                  /\ q.body = [type |-> "offer", tracks |-> TracksAt(i)]
                  /\ Header("Content-type", "application/sdp") \in q.headers
                  /\ HasAuthorization(q) <=> ctx.bearer_token # NULL
                  /\ \A h \in q.headers :
                        h.name = "Authorization" => h.value = <<"Bearer", ctx.bearer_token>>
        /\ \A i \in 1..Len(trace) :
              trace[i].op = "ffurl_connect_POST" => (i > 1 /\ trace[i - 1].op = "http_request")

\* C15 witness: the POST of a muxer with a bearer token and two tracks was
\* connected
C15_Witness ==
    /\ variant = "whip" /\ ctx.bearer_token # NULL /\ nb_streams = 2
    /\ Requests("POST") # {}
    /\ \E i \in Requests("POST") :
          HasAuthorization(trace[i].arg) /\ Cardinality(trace[i].arg.body.tracks) = 2
    /\ Happened("ffurl_connect_POST")

\* the location whip_write_header stored, NULL when it stored none
CapturedLocation ==
    IF Happened("av_opt_get_new_location")
    THEN trace[First("av_opt_get_new_location")].arg
    ELSE NULL

\* C16: a teardown call of whip.c makes at most one DELETE, addressed to the
\* location the handshake captured; when the response carried no location,
\* teardown makes no DELETE and returns success.
C16_OneDeleteToCapturedLocation ==
    variant = "whip" =>
        /\ \A i \in Requests("DELETE") : trace[i].arg.url = CapturedLocation
        /\ Cardinality(Requests("DELETE")) <= hist.trailers
        /\ CapturedLocation \in {NULL, ""} =>
              /\ Requests("DELETE") = {}
              /\ ~Happened("ffurl_connect_DELETE")
              /\ \A k \in 1..hist.trailers : hist.trailerRets[k] = 0

\* the peer connections rtcCreatePeerConnection returned
CreatedPcs ==
    {trace[i].arg : i \in {k \in 1..Len(trace) :
                              trace[k].op = "rtcCreatePeerConnection" /\ trace[k].arg > 0}}

\* C17: whatever init, write_header and deinit did, a peer connection that
\* was created is deleted at most once, it is held by the engine exactly
\* while it was not deleted, it was deleted once when write_header failed
\* (whip.c) and when deinit returned, and nothing but a created peer
\* connection is deleted later than its creation.
C17_PeerConnectionDeletedOnce ==
    /\ \A p \in CreatedPcs :
          /\ CountArg("rtcDeletePeerConnection", p) <= 1
          /\ p \in env.pcs <=> CountArg("rtcDeletePeerConnection", p) = 0
          /\ pc = "deinited" => CountArg("rtcDeletePeerConnection", p) = 1
          /\ (variant = "whip" /\ pc = "header_failed") =>
                CountArg("rtcDeletePeerConnection", p) = 1
    /\ \A i \in 1..Len(trace) :
          (trace[i].op = "rtcDeletePeerConnection" /\ trace[i].arg > 0) =>
              \E j \in 1..(i - 1) :
                  trace[j].op = "rtcCreatePeerConnection" /\ trace[j].arg = trace[i].arg

\* C17 witness: write_header failed and ran whip_deinit itself, then the
\* caller's deinit ran, and the peer connection was deleted once
C17_Witness ==
    /\ variant = "whip" /\ pc = "deinited" /\ Happened("wait_begin")
    /\ CreatedPcs # {}
    /\ \A p \in CreatedPcs : CountArg("rtcDeletePeerConnection", p) = 1
    /\ ctx.peer_connection = 0

\* the positions of the calls that hand a packet to the engine
Transmits ==
    {i \in 1..Len(trace) : trace[i].op \in {"rtcSetTrackRtpTimestamp", "rtcSendMessage"}}
\* every read of the state check of the last packet returned st
ReadsAll(st) == \A k \in 1..Len(hist.pkt.reads) : hist.pkt.reads[k] = st

C19_FailurePathsReturnNegative ==
    pc \in {"init_failed", "header_failed"} => ret < 0

\* C20: a packet whep_read_packet returns carries stream index 0 whether
\* the call named track 0 or track 1, and the one engine-side call it makes
\* is av_read_frame on the sub-pipeline of the track the call named, whose
\* result it returns.
C20_InboundIndexZeroFromNamedTrack ==
    (variant = "whep" /\ PacketDone) =>
        /\ hist.pkt.index_out = 0
        /\ Len(trace) = hist.pkt.tlen + 1
        /\ trace[Len(trace)] = Ev("av_read_frame", hist.pkt.stream_index)
        /\ hist.pkt.stream_index + 1 \in env.subs
        /\ ret \in PipelineResults

\* C20 witness: a packet pulled from the audio track (track 1) was returned
\* with stream index 0
C20_Witness ==
    /\ variant = "whep" /\ PacketDone
    /\ hist.pkt.stream_index = 1 /\ ret = 0
    /\ trace[Len(trace)] = Ev("av_read_frame", 1)
    /\ hist.pkt.index_out = 0

\* the calls that set option name and were accepted
Accepted(name) ==
    {k \in 1..Len(hist.opts) : hist.opts[k].name = name /\ hist.opts[k].ret = 0}

\* C21: a connection_timeout or rw_timeout below the minimum of 100 ms is
\* refused by the call that sets it, which is made before init; the fields
\* never hold less than the minimum, the deadline of the wait of
\* write_header is never less than the minimum away, and a
\* connection_timeout that was never set is the default of 10 s.
C21_TimeoutBelowMinimumRejected ==
    /\ \A k \in 1..Len(hist.opts) :
          hist.opts[k].val < MinTimeout => hist.opts[k].ret < 0
    /\ ctx.connection_timeout >= MinTimeout
    /\ ctx.rw_timeout >= MinTimeout
    /\ pc = "wait_head" => wait.timeout - now >= MinTimeout
    /\ Accepted("connection_timeout") = {} =>
          (ctx.connection_timeout = DefaultTimeout /\ DefaultTimeout = 100 * PollInterval)
    /\ Accepted("connection_timeout") # {} =>
          LET S == Accepted("connection_timeout")
              last == CHOOSE k \in S : \A j \in S : j <= k
          IN  ctx.connection_timeout = hist.opts[last].val

\* C21 witness: a connection_timeout of 0 was refused, one of the minimum
\* was accepted, and the wait of write_header began with it
C21_Witness ==
    /\ pc = "wait_head"
    /\ \E k \in 1..Len(hist.opts) :
          hist.opts[k].name = "connection_timeout" /\ hist.opts[k].val = 0
          /\ hist.opts[k].ret < 0
    /\ Accepted("connection_timeout") # {}
    /\ wait.timeout - now = MinTimeout

\* the identifiers successful rtcAddTrackEx calls returned
IssuedTracks ==
    {trace[i].arg : i \in {k \in 1..Len(trace) :
                              trace[k].op = "rtcAddTrackEx" /\ trace[k].arg > 0}}

\* C22: after init returned success there is one element of s->tracks for
\* each declared stream, every element holds an identifier rtcAddTrackEx
\* returned for this session and the engine still holds, and no two
\* elements hold the same one.
C22_OneValidTrackPerStream ==
    (variant \in {"whip", "mux"} /\ pc = "inited") =>
        /\ ~ctx.tracks.null
        /\ Len(ctx.tracks.slots) = nb_streams
        /\ \A i \in 1..nb_streams :
              /\ ctx.tracks.slots[i].track_id \in IssuedTracks
              /\ ctx.tracks.slots[i].track_id \in env.tracks
        /\ \A i, j \in 1..nb_streams :
              ctx.tracks.slots[i].track_id = ctx.tracks.slots[j].track_id => i = j

Terminal == {"RTC_FAILED", "RTC_CLOSED"}

\* C23: no step takes s->state from Failed or Closed to New, Connecting,
\* Connected or Disconnected.
C23_NoRegressionFromTerminal ==
    [][ctx.state \in Terminal => ctx'.state \in Terminal]_vars

\* C24: a whip_write_packet call made after the state went from Connected
\* to Disconnected, Failed or Closed makes no engine call and returns
\* AVERROR_EOF, whatever the engine notified since; here every session has
\* left Connected for one of these states before its first packet.
C24_EndOfStreamLatched ==
    (variant = "whip" /\ PacketDone) =>
        (ret = AVERROR_EOF /\ Len(trace) = hist.pkt.tlen)

\* C25: every step that changes s->state is a step of whip_on_state_change;
\* init, write_header and its wait, write_packet, read_packet,
\* write_trailer, read_close and deinit leave the field as it is.
C25_StateWrittenOnlyByCallback ==
    [][ctx'.state # ctx.state => whip_on_state_change]_vars

\* C25 witness: the state the callback stored during the wait is still held
\* after write_header failed, ran whip_deinit, and the caller's deinit ran
C25_Witness ==
    /\ variant = "whip" /\ pc = "deinited" /\ Happened("wait_begin")
    /\ Happened("rtcDeletePeerConnection")
    /\ ctx.state = "RTC_DISCONNECTED"

\* stream i (0-based) is one whip_init creates a track for
HasTrack(i) == streams[i + 1].codec_type \in {"audio", "video"}
\* the identifier rtcAddTrackEx returned for stream i (0-based): tracks are
\* created in stream order, one for each audio or video stream
TrackCreatedFor(i) ==
    LET P == {k \in 1..Len(trace) : trace[k].op = "rtcAddTrackEx"}
        n == Cardinality({j \in 1..(i + 1) : HasTrack(j - 1)})
        k == CHOOSE k \in P : Cardinality({j \in P : j <= k}) = n
    IN  trace[k].arg
\* the engine calls of the last packet
PacketCalls == SubSeq(trace, hist.pkt.tlen + 1, Len(trace))

\* C26: a whip_write_packet call with a non-negative timestamp that passed
\* the state check calls rtcSetTrackRtpTimestamp and then, unless that
\* failed, rtcSendMessage, both on the track created for the packet's stream
\* and on no other; it returns 0 when both went through and AVERROR_EXTERNAL
\* when one of them failed.
C26_TimestampThenSendOnStreamsTrack ==
    (/\ variant = "whip" /\ PacketDone
     /\ hist.pkt.pts >= 0 /\ ~EofRead(hist.pkt.reads)) =>
        /\ HasTrack(hist.pkt.stream_index)
        /\ Len(PacketCalls) \in {1, 2}
        /\ PacketCalls[1].op = "rtcSetTrackRtpTimestamp"
        /\ Len(PacketCalls) = 2 => PacketCalls[2].op = "rtcSendMessage"
        /\ \A k \in 1..Len(PacketCalls) :
              PacketCalls[k].arg = TrackCreatedFor(hist.pkt.stream_index)
        /\ ret = 0 => Len(PacketCalls) = 2
        /\ ret # 0 => ret = AVERROR_EXTERNAL

TrackOps == {"rtcSetTrackRtpTimestamp", "rtcSendMessage", "rtcDeleteTrack"}

\* C27: once a whip_deinit has run to its end (it deleted the peer
\* connection), no later call sets a timestamp, sends or deletes on any
\* track; a write_packet call made after a failed write_header makes no
\* engine call.
C27_NoTrackOperationAfterTeardown ==
    variant = "whip" =>
        /\ \A i \in 1..Len(trace) :
              trace[i].op = "rtcDeletePeerConnection" =>
                  \A j \in (i + 1)..Len(trace) : trace[j].op \notin TrackOps
        /\ (pc \in {"header_failed", "crashed"} /\ hist.npkts > 0) =>
              Len(trace) = hist.pkt.tlen

\* C28 (as stated): when write_header returns from its wait, no more than
\* the connection timeout plus one poll interval has passed since the wait
\* began.
C28_ReturnsWithinTimeoutPlusInterval ==
    WaitEnded => now <= wait.timeout + PollInterval

\* C28 (amended): while the clock advances and the calling thread runs, the
\* wait of write_header ends, with success or with an error, whatever the
\* engine notifies; the loop goes to sleep only on a clock read that is not
\* past the deadline, so every sleep is due to end no later than one poll
\* interval after the deadline, and the first clock read past the deadline
\* ends the wait.
C28_WaitTerminates ==
    /\ (pc \in WaitPcs) ~> (pc \in {"established", "header_failed"})
    /\ [](pc = "wait_sleep" => wait.wakeAt <= wait.timeout + PollInterval)
    /\ []((WaitEnded /\ wait.cause = "timeout") => wait.rdTime > wait.timeout)

\* C28 witness: the engine never left New, the wait slept and then ended on
\* the deadline, later than one poll interval after it
C28_Witness ==
    /\ pc = "header_failed" /\ Happened("wait_begin") /\ wait.cause = "timeout"
    /\ ctx.state = "RTC_NEW" /\ wait.rdHead = "RTC_NEW"
    /\ now > wait.timeout + PollInterval

\* C29: every rtcDeleteTrack of whip_deinit is given an identifier that an
\* earlier successful rtcAddTrackEx of this session returned, and no
\* identifier is given to it twice; also after an init that failed part way
\* through the streams, and with streams that are neither audio nor video.
C29_DeletesOnlyCreatedTracksOnce ==
    variant = "whip" =>
        \A i \in 1..Len(trace) :
            trace[i].op = "rtcDeleteTrack" =>
                /\ \E j \in 1..(i - 1) :
                      /\ trace[j].op = "rtcAddTrackEx"
                      /\ trace[j].arg > 0
                      /\ trace[j].arg = trace[i].arg
                /\ CountArg("rtcDeleteTrack", trace[i].arg) = 1

\* the call of rtcSetTrackRtpTimestamp the routed packet made, when there
\* is one
TimestampSet ==
    /\ hist.npkts = 1
    /\ Len(trace) > hist.pkt.tlen
    /\ trace[hist.pkt.tlen + 1].op = "rtcSetTrackRtpTimestamp"

\* C30: a packet whose pts is not negative, routed on a session that is
\* not disconnected, failed or closed, is not rejected for its timestamp,
\* however large, and the RTP timestamp given to the engine is pts modulo
\* 2^32: a value ts below 2^32 with pts = q * 2^32 + ts for some q >= 0.
C30_RtpTimestampIsPtsMod2_32 ==
    (/\ hist.npkts = 1
     /\ hist.pkt.pts[4] < 32768
     /\ hist.pkt.start \notin {"RTC_DISCONNECTED", "RTC_FAILED", "RTC_CLOSED"})
    => /\ ret # AVERROR_EINVAL
       /\ TimestampSet
       /\ LET ts == trace[hist.pkt.tlen + 1].arg.timestamp
          IN  /\ Len(ts) = 2
              /\ \A k \in 1..2 : ts[k] \in 0..65535
              /\ \E q \in {SubSeq(hist.pkt.pts, 3, 4)} : hist.pkt.pts = ts \o q

\* C30 witness: a packet with pts = 2^32 + 7 was sent with RTP timestamp 7
C30_Witness ==
    /\ TimestampSet
    /\ hist.pkt.pts = <<7, 0, 1, 0>>
    /\ trace[hist.pkt.tlen + 1].arg.timestamp = <<7, 0>>
    /\ ret = 0

====
